---- MODULE Spec2Model ----
(***************************************************************************)
(* Model of open_webui.retrieval: the document loader dispatcher           *)
(* (loaders/main.py: Loader, TikaLoader, OmniparseLoader) and the web      *)
(* search result filter (web/main.py: get_filtered_results).               *)
(*                                                                         *)
(* A Python str is a sequence of atoms (short pieces of text); the string  *)
(* operations the code uses (find, endswith, split, lower, +) are defined   *)
(* on such sequences.  None is a reserved value outside every string.      *)
(***************************************************************************)
EXTENDS Integers, Sequences, FiniteSets

VARIABLES engine, kwargs, call, loader, loaded,
          env, tikaOut, omniOut,
          results, filter_list, filtered

vars == <<engine, kwargs, call, loader, loaded,
          env, tikaOut, omniOut,
          results, filter_list, filtered>>

dispatchVars == <<engine, kwargs, call, loader, loaded>>
adapterVars == <<env, tikaOut, omniOut>>
filterVars == <<results, filter_list, filtered>>

(***************************************************************************)
(* Bounds                                                                  *)
(***************************************************************************)
MaxDocs == 2
MaxHits == 2

(***************************************************************************)
(* Python values                                                           *)
(***************************************************************************)
None == <<"<None>">>

Truthy(x) == x # None /\ x # <<>>

Max(S) == CHOOSE m \in S : \A n \in S : n <= m

Min(S) == CHOOSE m \in S : \A n \in S : m <= n

\* str.find: lowest 0-based index at which sub occurs in s, -1 when it does not
Find(s, sub) ==
    LET At == {i \in 0..(Len(s) - Len(sub)) : SubSeq(s, i + 1, i + Len(sub)) = sub}
    IN  IF At = {} THEN -1 ELSE Min(At)

\* str.endswith
EndsWith(s, suf) ==
    /\ Len(suf) <= Len(s)
    /\ SubSeq(s, Len(s) - Len(suf) + 1, Len(s)) = suf

\* str.lower, atom by atom
LowerAtom(a) ==
    CASE a = "PDF" -> "pdf"
      [] a = "Docx" -> "docx"
      [] a = "Dockerfile" -> "dockerfile"
      [] OTHER -> a

Lower(s) == [i \in 1..Len(s) |-> LowerAtom(s[i])]

\* filename.split(".")[-1]: what follows the last "."
SplitLast(s) ==
    LET Dots == {i \in 1..Len(s) : s[i] = "."}
        last == IF Dots = {} THEN 0 ELSE Max(Dots)
    IN  SubSeq(s, last + 1, Len(s))

FileExt(filename) == Lower(SplitLast(filename))

(***************************************************************************)
(* loaders/main.py                                                         *)
(***************************************************************************)
known_source_ext ==
    {<<e>> : e \in {"go", "py", "java", "sh", "bat", "ps1", "cmd", "js", "ts",
                    "css", "cpp", "hpp", "h", "c", "cs", "sql", "log", "ini",
                    "pl", "pm", "r", "dart", "dockerfile", "env", "php", "hs",
                    "hsc", "lua", "nginxconf", "conf", "m", "mm", "plsql",
                    "perl", "rb", "rs", "db2", "scala", "bash", "swift", "vue",
                    "svelte", "msg", "ex", "exs", "erl", "tsx", "jsx", "lhs",
                    "json"}}

MimeTextPlain == <<"text/", "plain">>
MimePdf == <<"application/", "pdf">>
MimeXText == <<"application/", "x-", "text/", "plain">>
MimeEpub == <<"application/", "epub+zip">>
MimeDocx == <<"application/", "vnd.openxmlformats-officedocument.wordprocessingml.document">>
MimeXls == <<"application/", "vnd.ms-excel">>
MimeXlsx == <<"application/", "vnd.openxmlformats-officedocument.spreadsheetml.sheet">>
MimePpt == <<"application/", "vnd.ms-powerpoint">>
MimePptx == <<"application/", "vnd.openxmlformats-officedocument.presentationml.presentation">>

DocIntelExts == {<<"pdf">>, <<"xls">>, <<"xlsx">>, <<"docx">>, <<"ppt">>, <<"pptx">>}

DocIntelMimes == {MimeXls, MimeXlsx, MimeDocx, MimePpt, MimePptx}

True == <<"True">>

MkLoader(cls, args) == [cls |-> cls, args |-> args]

\* file_content_type and file_content_type.find("text/") >= 0
TextLike(file_content_type) ==
    /\ Truthy(file_content_type)
    /\ Find(file_content_type, <<"text/">>) >= 0

\* TextFallback without its final else: loader is left unbound and
\* "return loader" raises
TextFallbackNoElse(file_ext, file_content_type, file_path) ==
    IF file_ext \in known_source_ext \/ TextLike(file_content_type)
    THEN MkLoader("TextLoader", <<file_path, True>>)
    ELSE MkLoader("<UnboundLocalError>", <<>>)

\* the last two branches of the local catalogue
TextFallback(file_ext, file_content_type, file_path) ==
    IF file_ext \in known_source_ext \/ TextLike(file_content_type)
    THEN MkLoader("TextLoader", <<file_path, True>>)
    ELSE MkLoader("TextLoader", <<file_path, True>>)

\* the else branch of _get_loader: the local catalogue
LocalLoader(kw, file_ext, file_content_type, file_path) ==
    IF file_ext = <<"pdf">>
    THEN MkLoader("PyPDFLoader", <<file_path, kw.PDF_EXTRACT_IMAGES>>)
    ELSE IF file_ext = <<"csv">>
    THEN MkLoader("CSVLoader", <<file_path>>)
    ELSE IF file_ext = <<"rst">>
    THEN MkLoader("UnstructuredRSTLoader", <<file_path, <<"elements">> >>)
    ELSE IF file_ext = <<"xml">>
    THEN MkLoader("UnstructuredXMLLoader", <<file_path>>)
    ELSE IF file_ext \in {<<"htm">>, <<"html">>}
    THEN MkLoader("BSHTMLLoader", <<file_path, <<"unicode_escape">> >>)
    ELSE IF file_ext = <<"md">>
    THEN MkLoader("TextLoader", <<file_path, True>>)
    ELSE IF file_content_type = MimeEpub
    THEN MkLoader("UnstructuredEPubLoader", <<file_path>>)
    ELSE IF file_content_type = MimeDocx \/ file_ext = <<"docx">>
    THEN MkLoader("Docx2txtLoader", <<file_path>>)
    ELSE IF file_content_type \in {MimeXls, MimeXlsx} \/ file_ext \in {<<"xls">>, <<"xlsx">>}
    THEN MkLoader("UnstructuredExcelLoader", <<file_path>>)
    ELSE IF file_content_type \in {MimePpt, MimePptx} \/ file_ext \in {<<"ppt">>, <<"pptx">>}
    THEN MkLoader("UnstructuredPowerPointLoader", <<file_path>>)
    ELSE IF file_ext = <<"msg">>
    THEN MkLoader("OutlookMessageLoader", <<file_path>>)
    ELSE TextFallback(file_ext, file_content_type, file_path)

\* TikaBranch choosing the PUT adapter for what is not text
TikaBranchPut(kw, filename, file_ext, file_content_type, file_path) ==
    IF file_ext \in known_source_ext \/ TextLike(file_content_type)
    THEN MkLoader("TextLoader", <<file_path, True>>)
    ELSE MkLoader("TikaLoader", <<kw.TIKA_SERVER_URL, file_path, file_content_type>>)

\* the body of the first branch of _get_loader
TikaBranch(kw, filename, file_ext, file_content_type, file_path) ==
    IF file_ext \in known_source_ext \/ TextLike(file_content_type)
    THEN MkLoader("TextLoader", <<file_path, True>>)
    ELSE MkLoader("OmniparseLoader",
                  <<kw.TIKA_SERVER_URL, filename, file_path, file_content_type>>)

\* _get_loader whose first branch does not ask for the extension "pdf"
GetLoaderAnyExt(eng, kw, filename, file_content_type, file_path) ==
    LET file_ext == FileExt(filename)
    IN  IF eng = "tika" /\ Truthy(kw.TIKA_SERVER_URL)
        THEN TikaBranch(kw, filename, file_ext, file_content_type, file_path)
        ELSE IF /\ eng = "document_intelligence"
                /\ kw.DOCUMENT_INTELLIGENCE_ENDPOINT # <<>>
                /\ kw.DOCUMENT_INTELLIGENCE_KEY # <<>>
                /\ (file_ext \in DocIntelExts \/ file_content_type \in DocIntelMimes)
        THEN MkLoader("AzureAIDocumentIntelligenceLoader",
                      <<file_path, kw.DOCUMENT_INTELLIGENCE_ENDPOINT,
                        kw.DOCUMENT_INTELLIGENCE_KEY>>)
        ELSE LocalLoader(kw, file_ext, file_content_type, file_path)

\* Loader._get_loader
GetLoader(eng, kw, filename, file_content_type, file_path) ==
    LET file_ext == FileExt(filename)
    IN  IF eng = "tika" /\ Truthy(kw.TIKA_SERVER_URL) /\ file_ext = <<"pdf">>
        THEN TikaBranch(kw, filename, file_ext, file_content_type, file_path)
        ELSE IF /\ eng = "document_intelligence"
                /\ kw.DOCUMENT_INTELLIGENCE_ENDPOINT # <<>>
                /\ kw.DOCUMENT_INTELLIGENCE_KEY # <<>>
                /\ (file_ext \in DocIntelExts \/ file_content_type \in DocIntelMimes)
        THEN MkLoader("AzureAIDocumentIntelligenceLoader",
                      <<file_path, kw.DOCUMENT_INTELLIGENCE_ENDPOINT,
                        kw.DOCUMENT_INTELLIGENCE_KEY>>)
        ELSE LocalLoader(kw, file_ext, file_content_type, file_path)

(***************************************************************************)
(* HTTP exchange as the requests library reports it.  A call either raises *)
(* a RequestException before a response exists (connection failure,       *)
(* timeout) or yields a response.                                          *)
(***************************************************************************)
StatusCodes == {200, 300, 404, 500}

\* Response.reason
Reason(status_code) ==
    CASE status_code = 200 -> <<"OK">>
      [] status_code = 300 -> <<"Multiple Choices">>
      [] status_code = 404 -> <<"Not Found">>
      [] status_code = 500 -> <<"Internal Server Error">>

StatusStr(status_code) ==
    CASE status_code = 200 -> "200"
      [] status_code = 300 -> "300"
      [] status_code = 404 -> "404"
      [] status_code = 500 -> "500"

\* Response.raise_for_status raises HTTPError for 4xx and 5xx only
RaisesForStatus(status_code) == 400 <= status_code /\ status_code < 600

\* Response.ok: raise_for_status does not raise
Ok(status_code) == ~RaisesForStatus(status_code)

\* str(HTTPError) as raise_for_status builds it
HTTPErrorMsg(status_code, url) ==
    <<StatusStr(status_code),
      IF status_code < 500 THEN " Client Error: " ELSE " Server Error: ">>
    \o Reason(status_code) \o <<" for url: ">> \o url

ConnectionErrorMsg == <<"Connection refused">>

TimeoutMsg == <<"Read timed out.">>

\* str(OSError) when open(file_path, "rb") fails
FileErrorMsg == <<"No such file or directory">>

\* bodies: text that is not JSON, a JSON array, JSON objects with and without
\* the keys TikaLoader reads
Bodies ==
    {[kind |-> "text", content |-> None, ctype |-> None],
     [kind |-> "array", content |-> None, ctype |-> None],
     [kind |-> "object", content |-> None, ctype |-> None],
     [kind |-> "object", content |-> <<"hello">>, ctype |-> None],
     [kind |-> "object", content |-> <<"hello">>, ctype |-> MimeTextPlain]}

\* Response.text of a body
BodyText(body) ==
    CASE body.kind = "text" -> <<"plain body">>
      [] body.kind = "array" -> <<"[]">>
      [] OTHER -> <<"{...}">>

NetOutcomes ==
    {[kind |-> "ConnectionError", status_code |-> 0, body |-> [kind |-> "text", content |-> None, ctype |-> None], header_ct |-> None],
     [kind |-> "Timeout", status_code |-> 0, body |-> [kind |-> "text", content |-> None, ctype |-> None], header_ct |-> None]}
    \cup [kind : {"response"}, status_code : StatusCodes, body : Bodies,
          header_ct : {None, MimeTextPlain}]

Document(page_content, metadata) == [page_content |-> page_content, metadata |-> metadata]

\* an HTTP request issued through requests.put / requests.post
Request(method, url) == [method |-> method, url |-> url]

\* outcome of a load(): exc = "" and the returned list, or the exception raised
\* (its class and message) and no list; reqs lists the HTTP requests issued
Returned(docs, reqs) == [exc |-> "", msg |-> <<>>, docs |-> docs, reqs |-> reqs]

Raised(exc, msg, reqs) == [exc |-> exc, msg |-> msg, docs |-> <<>>, reqs |-> reqs]

timeout == 600

\* OmniparseLoader.load; the message prefixes stand for the literals of the
\* two raise statements, given here in English
OmniparseLoad(url, filename, file_path, mime_type, fileOk, net) ==
    LET post == <<Request("POST", url)>>
    IN  IF ~fileOk
        THEN Raised("ValueError", <<"document processing failed: ">> \o FileErrorMsg, <<>>)
        ELSE IF net.kind = "ConnectionError"
        THEN Raised("ValueError", <<"API request failed: ">> \o ConnectionErrorMsg, post)
        ELSE IF net.kind = "Timeout"
        THEN Raised("ValueError", <<"API request failed: ">> \o TimeoutMsg, post)
        ELSE IF RaisesForStatus(net.status_code)
        THEN Raised("ValueError",
                    <<"API request failed: ">> \o HTTPErrorMsg(net.status_code, url), post)
        ELSE Returned(<<Document(BodyText(net.body),
                                 [source |-> file_path,
                                  filename |-> filename,
                                  content_type |-> net.header_ct,
                                  status_code |-> net.status_code])>>, post)

\* endpoint built by TikaLoader.load
TikaEndpoint(url) ==
    (IF ~EndsWith(url, <<"/">>) THEN url \o <<"/">> ELSE url) \o <<"tika/text">>

\* the headers dict of TikaLoader.load: absent keys are not in the domain
TikaHeaders(mime_type) ==
    [k \in (IF mime_type # None THEN {"Content-Type"} ELSE {}) |-> mime_type]

\* TikaText with the empty string as the default of get
TikaTextEmptyDefault(body) ==
    IF body.content # None THEN body.content ELSE <<>>

\* raw_metadata.get("X-TIKA:content", "<No text content found>")
TikaText(body) ==
    IF body.content # None THEN body.content ELSE <<"<No text content found>">>

\* TikaLoader.load; requests.put is given no timeout, so net is a connection
\* failure or a response
TikaLoad(url, file_path, mime_type, fileOk, net) ==
    LET put == <<Request("PUT", TikaEndpoint(url))>>
    IN  IF ~fileOk
        THEN Raised("FileNotFoundError", FileErrorMsg, <<>>)
        ELSE IF net.kind = "ConnectionError"
        THEN Raised("ConnectionError", ConnectionErrorMsg, put)
        ELSE IF Ok(net.status_code)
        THEN IF net.body.kind = "text"
             THEN Raised("JSONDecodeError", <<"Expecting value">>, put)
             ELSE IF net.body.kind = "array"
             THEN Raised("AttributeError", <<"'list' object has no attribute 'get'">>, put)
             ELSE LET text == TikaText(net.body)
                      headers == IF net.body.ctype # None
                                 THEN [k \in {"Content-Type"} |-> net.body.ctype]
                                 ELSE TikaHeaders(mime_type)
                  IN  Returned(<<Document(text, headers)>>, put)
        ELSE Raised("Exception", <<"Error calling Tika: ">> \o Reason(net.status_code), put)

\* ftfy.fix_text, atom by atom: mojibake is repaired, curly quotes are
\* straightened, other text is left as it is
FixAtom(a) ==
    CASE a = "caf<C3><A9>" -> "caf<E9>"
      [] a = "<E2><80><9C>hi<E2><80><9D>" -> "\"hi\""
      [] OTHER -> a

fix_text(text) == [i \in 1..Len(text) |-> FixAtom(text[i])]

\* Normalize that rebuilds each Document from its text alone
NormalizeNoMetadata(docs) ==
    [i \in 1..Len(docs) |->
        Document(fix_text(docs[i].page_content), <<>>)]

\* the list comprehension of Loader.load over the list loader.load() returned
Normalize(docs) ==
    [i \in 1..Len(docs) |->
        Document(fix_text(docs[i].page_content), docs[i].metadata)]

\* Loader.load, given the outcome of the selected loader's load()
LoaderLoad(out) ==
    IF out.exc # ""
    THEN out
    ELSE Returned(Normalize(out.docs), out.reqs)

(***************************************************************************)
(* web/main.py                                                             *)
(***************************************************************************)
Schemes == {"http://", "https://"}

HostAtoms == {"a.", "example.com", "b.org", "not"}

PortAtoms == {":8080"}

PathAtoms == {"/x"}

\* number of leading atoms of s that lie in S
Lead(s, S) ==
    Max({n \in 0..Len(s) : \A i \in 1..n : s[i] \in S})

\* validators.url: scheme, non-empty host, optional port, optional path
ValidUrl(url) ==
    /\ Len(url) >= 2
    /\ url[1] \in Schemes
    /\ LET rest == SubSeq(url, 2, Len(url))
           h == Lead(rest, HostAtoms)
           afterHost == SubSeq(rest, h + 1, Len(rest))
           p == IF Len(afterHost) > 0 /\ afterHost[1] \in PortAtoms THEN 1 ELSE 0
           afterPort == SubSeq(afterHost, p + 1, Len(afterHost))
       IN  /\ h >= 1
           /\ \/ afterPort = <<>>
              \/ Len(afterPort) = 1 /\ afterPort[1] \in PathAtoms

\* urlparse(url).netloc: what stands between the scheme's "//" and the path
Netloc(url) ==
    IF Len(url) >= 1 /\ url[1] \in Schemes
    THEN LET rest == SubSeq(url, 2, Len(url))
         IN  SubSeq(rest, 1, Lead(rest, HostAtoms \cup PortAtoms))
    ELSE <<>>

NoneList == <<None>>

\* result.get("url") or result.get("link", "")
HitUrl(result) ==
    IF Truthy(result.url)
    THEN result.url
    ELSE IF result.link = None THEN <<>> ELSE result.link

\* the body of the for loop of get_filtered_results: TRUE when the hit is appended
Kept(result, fl) ==
    LET url == HitUrl(result)
        domain == Netloc(url)
    IN  /\ ValidUrl(url)
        /\ \/ ~(fl # NoneList /\ fl # <<>>)
           \/ \E i \in 1..Len(fl) : EndsWith(domain, fl[i])

\* get_filtered_results
RECURSIVE get_filtered_results(_, _)
get_filtered_results(rs, fl) ==
    IF rs = <<>>
    THEN <<>>
    ELSE (IF Kept(Head(rs), fl) THEN <<Head(rs)>> ELSE <<>>)
         \o get_filtered_results(Tail(rs), fl)

(***************************************************************************)
(* Inputs                                                                  *)
(***************************************************************************)
Engines == {"", "tika", "document_intelligence"}

TikaUrl == <<"http://tika:9998">>

TikaUrlSlash == <<"http://tika:9998", "/">>

DocIntelEndpoint == <<"https://di.example/">>

DocIntelKey == <<"secret">>

\* the keyword arguments of Loader(engine, **kwargs); None: not passed
KwargsSet ==
    [TIKA_SERVER_URL : {None, <<>>, TikaUrl},
     DOCUMENT_INTELLIGENCE_ENDPOINT : {None, <<>>, DocIntelEndpoint},
     DOCUMENT_INTELLIGENCE_KEY : {None, <<>>, DocIntelKey},
     PDF_EXTRACT_IMAGES : {None, True}]

NoKwargs ==
    [TIKA_SERVER_URL |-> None, DOCUMENT_INTELLIGENCE_ENDPOINT |-> None,
     DOCUMENT_INTELLIGENCE_KEY |-> None, PDF_EXTRACT_IMAGES |-> None]

Filenames ==
    {<<"a", ".", "pdf">>, <<"a", ".", "PDF">>, <<"a", ".", "docx">>,
     <<"a", ".", "csv">>, <<"a", ".", "py">>, <<"a", ".", "bin">>,
     <<"Dockerfile">>, <<"a", ".", "tar", ".", "xlsx">>}

Mimes ==
    {None, <<>>, MimeTextPlain, MimePdf, MimeXText, MimeDocx, MimeEpub}

FilePath == <<"/data/uploads/", "f1">>

\* what a library loader's load() may hand back: any list of documents
Units ==
    {Document(<<"hello">>, [source |-> FilePath]),
     Document(<<"caf<C3><A9>">>, [source |-> FilePath]),
     Document(<<"caf<C3><A9>">>, [source |-> FilePath, page |-> 1])}

RECURSIVE SeqsUpTo(_, _)
SeqsUpTo(S, n) ==
    IF n = 0
    THEN {<<>>}
    ELSE LET shorter == SeqsUpTo(S, n - 1)
         IN  shorter \cup {Append(q, x) : q \in {r \in shorter : Len(r) = n - 1}, x \in S}

\* outcomes of loader.load() for the loader _get_loader selected
ExtractOutcomes(ld) ==
    IF ld.cls = "OmniparseLoader"
    THEN {OmniparseLoad(ld.args[1], ld.args[2], ld.args[3], ld.args[4], fileOk, net) :
              fileOk \in BOOLEAN, net \in NetOutcomes}
    ELSE {Raised("RuntimeError", <<"extraction failed">>, <<>>)}
         \cup {Returned(ds, <<>>) : ds \in SeqsUpTo(Units, MaxDocs)}

Url1 == <<"http://", "a.", "example.com">>

Url2 == <<"not a url">>

Url3 == <<"http://", "b.org">>

Url4 == <<"http://", "a.", "example.com", ":8080", "/x">>

Hit(url, link, title) == [url |-> url, link |-> link, title |-> title]

\* search hits: None marks a key the dict does not have
Hits ==
    {Hit(Url1, None, <<"A">>), Hit(Url2, None, <<"B">>), Hit(Url3, None, <<"C">>),
     Hit(Url4, None, <<"D">>), Hit(None, Url1, <<"E">>), Hit(None, None, <<"F">>),
     Hit(<<>>, Url3, <<"G">>)}

FilterLists ==
    {NoneList, <<>>, << <<"example.com">> >>, << <<"b.org">> >>,
     << <<"example.com">>, <<"b.org">> >>}

(***************************************************************************)
(* State                                                                   *)
(*   engine, kwargs   the fields of the Loader object                      *)
(*   call             the file handed to the Loader                        *)
(*   loader, loaded   what _get_loader selected, what load did             *)
(*   env              the conditions an adapter's load() runs under: the   *)
(*                    adapter's url and mime_type, whether the file opens, *)
(*                    what the HTTP exchange does                          *)
(*   tikaOut, omniOut what TikaLoader.load and OmniparseLoader.load did    *)
(*   results, filter_list, filtered   arguments and result of              *)
(*                    get_filtered_results                                 *)
(***************************************************************************)
Calls ==
    [filename : Filenames, file_content_type : Mimes, file_path : {FilePath}]

NoCall == [filename |-> <<"a", ".", "pdf">>, file_content_type |-> None, file_path |-> FilePath]

NoLoader == MkLoader("", <<>>)

NotLoaded == [state |-> "idle", out |-> Returned(<<>>, <<>>), ret |-> Returned(<<>>, <<>>)]

Envs ==
    [url : {TikaUrl, TikaUrlSlash}, mime_type : {None, MimePdf},
     fileOk : BOOLEAN, net : NetOutcomes]

NoEnv ==
    [url |-> TikaUrl, mime_type |-> None, fileOk |-> TRUE,
     net |-> CHOOSE n \in NetOutcomes : n.kind = "ConnectionError"]

NotCalled == Raised("<not called>", <<>>, <<>>)

\* Loader.__init__: any engine, any keyword arguments; any file
InitDispatch ==
    /\ engine \in Engines
    /\ kwargs \in KwargsSet
    /\ call \in Calls
    /\ loader = NoLoader
    /\ loaded = NotLoaded
    /\ env = NoEnv
    /\ tikaOut = NotCalled
    /\ omniOut = NotCalled
    /\ results = <<>>
    /\ filter_list = NoneList
    /\ filtered = <<>>

\* TikaLoader.__init__, OmniparseLoader.__init__ and the world they call into
InitAdapters ==
    /\ engine = ""
    /\ kwargs = NoKwargs
    /\ call = NoCall
    /\ loader = NoLoader
    /\ loaded = NotLoaded
    /\ env \in Envs
    /\ tikaOut = NotCalled
    /\ omniOut = NotCalled
    /\ results = <<>>
    /\ filter_list = NoneList
    /\ filtered = <<>>

InitFilter ==
    /\ engine = ""
    /\ kwargs = NoKwargs
    /\ call = NoCall
    /\ loader = NoLoader
    /\ loaded = NotLoaded
    /\ env = NoEnv
    /\ tikaOut = NotCalled
    /\ omniOut = NotCalled
    /\ results = <<>>
    /\ filter_list = NoneList
    /\ filtered = <<>>

(***************************************************************************)
(* Operations                                                              *)
(***************************************************************************)
\* Loader._get_loader(filename, file_content_type, file_path)
Select ==
    /\ loader' = GetLoader(engine, kwargs, call.filename, call.file_content_type,
                           call.file_path)
    /\ loaded' = NotLoaded
    /\ UNCHANGED <<engine, kwargs, call, adapterVars, filterVars>>

\* Loader.load(filename, file_content_type, file_path)
Load ==
    LET ld == GetLoader(engine, kwargs, call.filename, call.file_content_type,
                        call.file_path)
    IN  \E out \in ExtractOutcomes(ld) :
            /\ loader' = ld
            /\ loaded' = [state |-> IF LoaderLoad(out).exc = "" THEN "returned" ELSE "raised",
                          out |-> out, ret |-> LoaderLoad(out)]
            /\ UNCHANGED <<engine, kwargs, call, adapterVars, filterVars>>

\* TikaLoader(url, file_path, mime_type).load(); without a timeout the call
\* does not come back from a server that never answers
TikaLoaderLoad ==
    /\ env.net.kind # "Timeout"
    /\ tikaOut' = TikaLoad(env.url, FilePath, env.mime_type, env.fileOk, env.net)
    /\ UNCHANGED <<dispatchVars, env, omniOut, filterVars>>

\* OmniparseLoader(url, filename, file_path, mime_type).load()
OmniparseLoaderLoad ==
    /\ omniOut' = OmniparseLoad(env.url, <<"a", ".", "pdf">>, FilePath,
                                env.mime_type, env.fileOk, env.net)
    /\ UNCHANGED <<dispatchVars, env, tikaOut, filterVars>>

\* get_filtered_results(results, filter_list)
Filter ==
    \E rs \in SeqsUpTo(Hits, MaxHits), fl \in FilterLists :
        /\ results' = rs
        /\ filter_list' = fl
        /\ filtered' = get_filtered_results(rs, fl)
        /\ UNCHANGED <<dispatchVars, adapterVars>>

NextDispatch == Select \/ Load

NextAdapters == TikaLoaderLoad \/ OmniparseLoaderLoad

NextFilter == Filter

SpecDispatch == InitDispatch /\ [][NextDispatch]_vars

SpecAdapters == InitAdapters /\ [][NextAdapters]_vars

SpecFilter == InitFilter /\ [][NextFilter]_vars

(***************************************************************************)
(* Properties of the dispatcher, checked under SpecDispatch                *)
(***************************************************************************)
Selected == loader # NoLoader

Ext == FileExt(call.filename)

Mime == call.file_content_type

\* a configured value: passed and not the empty string
NonEmpty(x) == x # None /\ x # <<>>

\* s begins with the string pre
StartsWith(s, pre) ==
    /\ s # None
    /\ Len(pre) <= Len(s)
    /\ SubSeq(s, 1, Len(pre)) = pre

LocalClasses ==
    {"PyPDFLoader", "CSVLoader", "UnstructuredRSTLoader", "UnstructuredXMLLoader",
     "BSHTMLLoader", "TextLoader", "UnstructuredEPubLoader", "Docx2txtLoader",
     "UnstructuredExcelLoader", "UnstructuredPowerPointLoader", "OutlookMessageLoader"}

RemoteClasses == {"TikaLoader", "OmniparseLoader", "AzureAIDocumentIntelligenceLoader"}

C2_Original ==
    (Selected /\ engine = "tika" /\ NonEmpty(kwargs.TIKA_SERVER_URL)
        /\ Ext = <<"pdf">> /\ ~TextLike(Mime))
    => loader.cls = "TikaLoader"

\* C2 amended: under the same conditions (MIME type absent, empty or without
\* "text/") the multipart POST adapter OmniparseLoader is selected, built from
\* TIKA_SERVER_URL, the filename, the path and the MIME type; its request is a
\* POST to TIKA_SERVER_URL itself, and TikaLoader is selected for no input
C2_SelectsOmniparse ==
    /\ (Selected /\ engine = "tika" /\ NonEmpty(kwargs.TIKA_SERVER_URL)
            /\ Ext = <<"pdf">> /\ ~TextLike(Mime))
       => /\ loader = MkLoader("OmniparseLoader",
                               <<kwargs.TIKA_SERVER_URL, call.filename,
                                 call.file_path, Mime>>)
          /\ \A i \in 1..Len(loaded.out.reqs) :
                loaded.out.reqs[i] = Request("POST", kwargs.TIKA_SERVER_URL)
    /\ loader.cls # "TikaLoader"

C2_Witness ==
    /\ engine = "tika"
    /\ kwargs.TIKA_SERVER_URL = TikaUrl
    /\ Ext = <<"pdf">>
    /\ Mime = MimePdf
    /\ loader.cls = "OmniparseLoader"
    /\ loaded.state = "returned"
    /\ Len(loaded.out.reqs) = 1

\* C3: engine "tika", TIKA_SERVER_URL set, extension "pdf": the local text
\* loader is selected exactly when the MIME type starts with "text/"
C3_TextOnlyByPrefix ==
    (Selected /\ engine = "tika" /\ NonEmpty(kwargs.TIKA_SERVER_URL) /\ Ext = <<"pdf">>)
    => (loader.cls = "TextLoader" <=> StartsWith(Mime, <<"text/">>))

\* C4: the layout adapter is selected only in engine "document_intelligence"
\* with endpoint and key both non-empty and an Office/PDF extension or MIME
\* type; with the endpoint or the key not a non-empty value the local
\* catalogue decides
C4_LayoutNeedsEndpointAndKey ==
    Selected =>
        /\ loader.cls = "AzureAIDocumentIntelligenceLoader"
           => /\ engine = "document_intelligence"
              /\ NonEmpty(kwargs.DOCUMENT_INTELLIGENCE_ENDPOINT)
              /\ NonEmpty(kwargs.DOCUMENT_INTELLIGENCE_KEY)
              /\ (Ext \in DocIntelExts \/ Mime \in DocIntelMimes)
        /\ (/\ engine = "document_intelligence"
            /\ ~(/\ NonEmpty(kwargs.DOCUMENT_INTELLIGENCE_ENDPOINT)
                 /\ NonEmpty(kwargs.DOCUMENT_INTELLIGENCE_KEY)))
           => loader = LocalLoader(kwargs, Ext, Mime, call.file_path)

\* C9: a remote adapter comes from rule 1 or rule 2 only.  In engine "tika" a
\* file that is not a "pdf", and a "pdf" without TIKA_SERVER_URL, gets the
\* local loader the default engine gives it; the default engine never selects
\* a remote adapter
C9_RulePriority ==
    Selected =>
        /\ (engine = "tika" /\ (Ext # <<"pdf">> \/ ~NonEmpty(kwargs.TIKA_SERVER_URL)))
           => /\ loader.cls \in LocalClasses
              /\ loader = GetLoader("", kwargs, call.filename, Mime, call.file_path)
        /\ engine = "" => loader.cls \in LocalClasses
        /\ loader.cls \in {"OmniparseLoader", "TikaLoader"}
           => engine = "tika" /\ NonEmpty(kwargs.TIKA_SERVER_URL) /\ Ext = <<"pdf">>
        /\ loader.cls = "AzureAIDocumentIntelligenceLoader"
           => engine = "document_intelligence"

C9_Witness ==
    /\ engine = "tika"
    /\ kwargs.TIKA_SERVER_URL = TikaUrl
    /\ Ext = <<"docx">>
    /\ Mime = MimePdf
    /\ loader.cls = "Docx2txtLoader"

\* text that still needs repair
Mojibake == {"caf<C3><A9>", "<E2><80><9C>hi<E2><80><9D>"}

\* C10: Loader.load returns the extracted units one for one and in order, the
\* text of each repaired and its metadata as extracted; when the extraction
\* raises, load raises the same and returns nothing
C10_LoadPipeline ==
    loaded.state # "idle" =>
        /\ loaded.out.exc = ""
           => /\ loaded.ret.exc = ""
              /\ Len(loaded.ret.docs) = Len(loaded.out.docs)
              /\ \A i \in 1..Len(loaded.out.docs) :
                    /\ loaded.ret.docs[i].metadata = loaded.out.docs[i].metadata
                    /\ loaded.ret.docs[i].page_content
                         = fix_text(loaded.out.docs[i].page_content)
                    /\ \A j \in 1..Len(loaded.ret.docs[i].page_content) :
                          loaded.ret.docs[i].page_content[j] \notin Mojibake
        /\ loaded.out.exc # ""
           => /\ loaded.ret.exc = loaded.out.exc
              /\ loaded.ret.docs = <<>>

C10_Witness ==
    /\ loaded.state = "returned"
    /\ Len(loaded.ret.docs) = 2
    /\ loaded.out.docs[1].page_content = <<"caf<C3><A9>">>
    /\ loaded.ret.docs[1].page_content = <<"caf<E9>">>
    /\ loaded.out.docs[2].page_content = <<"hello">>
    /\ "page" \in DOMAIN loaded.ret.docs[1].metadata

(***************************************************************************)
(* Properties of the adapters, checked under SpecAdapters                  *)
(***************************************************************************)
\* a status requests reports as ok: below 400
SuccessStatus(status_code) == status_code < 400

\* a status of the 2xx class
Is2xx(status_code) == 200 <= status_code /\ status_code < 300

\* the string sub occurs in the string s
Contains(s, sub) ==
    \E i \in 0..(Len(s) - Len(sub)) : SubSeq(s, i + 1, i + Len(sub)) = sub

C7_OmniparseLoad ==
    (omniOut # NotCalled /\ env.fileOk) =>
        /\ omniOut.exc = ""
           => /\ env.net.kind = "response"
              /\ Is2xx(env.net.status_code)
              /\ Len(omniOut.docs) = 1
              /\ omniOut.docs[1].page_content = BodyText(env.net.body)
              /\ DOMAIN omniOut.docs[1].metadata
                   = {"source", "filename", "content_type", "status_code"}
              /\ omniOut.docs[1].metadata.source = FilePath
              /\ omniOut.docs[1].metadata.content_type = env.net.header_ct
              /\ omniOut.docs[1].metadata.status_code = env.net.status_code
        /\ (env.net.kind # "response" \/ ~Is2xx(env.net.status_code))
           => /\ omniOut.exc = "ValueError"
              /\ omniOut.docs = <<>>
              /\ Contains(omniOut.msg,
                          CASE env.net.kind = "ConnectionError" -> ConnectionErrorMsg
                            [] env.net.kind = "Timeout" -> TimeoutMsg
                            [] OTHER -> Reason(env.net.status_code))

Failed(out) == out # NotCalled /\ out.exc # ""

\* C8: a remote call that fails - no connection, a failure status, a body
\* that cannot be parsed - fails in the PUT adapter and in the POST adapter
\* with one and the same kind of error, carrying a cause, and with no unit
C8_UniformFailure ==
    env.fileOk =>
        /\ (Failed(tikaOut) /\ Failed(omniOut)) => tikaOut.exc = omniOut.exc
        /\ Failed(tikaOut) => tikaOut.docs = <<>> /\ tikaOut.msg # <<>>
        /\ Failed(omniOut) => omniOut.docs = <<>> /\ omniOut.msg # <<>>

(***************************************************************************)
(* Properties of the result filter, checked under SpecFilter               *)
(***************************************************************************)
\* the host of a URL: its netloc without the port
Host(url) ==
    IF Len(url) >= 1 /\ url[1] \in Schemes
    THEN LET rest == SubSeq(url, 2, Len(url))
         IN  SubSeq(rest, 1, Lead(rest, HostAtoms))
    ELSE <<>>

\* the hits C6 says are kept, under the allowlist of the last call
ShouldKeep(result) ==
    /\ ValidUrl(HitUrl(result))
    /\ \/ filter_list = NoneList
       \/ \E i \in 1..Len(filter_list) : EndsWith(Host(HitUrl(result)), filter_list[i])

\* C6: the result is the input hits, in input order, whose URL ("url", else
\* "link") is well-formed and, when an allowlist is supplied, whose host
\* ends with an allowlist entry; the input is left as it was
C6_FilterKeepsAllowed ==
    filtered = SelectSeq(results, ShouldKeep)

====
